---- MODULE Spec2Model ----
(***************************************************************************)
(* Model of the middleware composition engine (compose / dispatch), the    *)
(* MiddlewareChain builder, the timeout guard and the rate limiter.        *)
(*                                                                         *)
(* A request is one call of composedHandler: it owns the closure variable  *)
(* index and one frame per dispatch(i) that passed the guard.  A stage is  *)
(* middlewares[i] (i < middlewares.length) or the terminal handler         *)
(* (i = middlewares.length).  Stage indices are 0-based as in the source;  *)
(* the TLA+ sequence middlewares is 1-based, so stage i is                 *)
(* middlewares[i + 1].                                                     *)
(***************************************************************************)
EXTENDS Integers, Sequences, FiniteSets, TLC

\* ---------------------------------------------------------------- bounds
MaxMw == 3          \* use() is called at most MaxMw times
MaxCalls == 2       \* a stage calls next() at most MaxCalls times
MaxArrivals == 4    \* the rate limiter receives at most MaxArrivals requests
MaxNow == 2000      \* the clock stops at MaxNow milliseconds
MaxInFlight == 2    \* requests the rate limiter has in flight at once

Reqs == {1, 2}                  \* request identities
Slots == 0..MaxMw               \* dispatch frames of one request
Kinds == {"mw", "timeout"}      \* "mw": any middleware that awaits next()

VARIABLES
  middlewares,      \* MiddlewareChain.middlewares, the array compose() closes over
  options,          \* MiddlewareChain.options
  composed,         \* handle() has returned the composed handler
  continueOnError,  \* compose(): destructured from options
  errorHandler,     \* compose(): destructured from options
  added,            \* history: the middleware in the order use() received them
  materialized,     \* history: middlewares as it was when handle() returned
  late,             \* the builder is still used after handle() returned
  reqs,             \* the requests the composed handler receives
  req,              \* per request: the closure of one composedHandler call
  keys,             \* the keys keyGenerator returns for the requests received
  windowMs,         \* rateLimit(): destructured from options
  maxRequests,      \* rateLimit(): destructured from options
  skipSuccessfulRequests,  \* rateLimit(): destructured from options
  clients,          \* rateLimit(): the Map key -> { count, resetTime }
  now,              \* Date.now(), in milliseconds since the limiter was created
  call,             \* per invocation of the rate limiting middleware: its frame
  last,             \* history: the latest step of the rate limiting middleware
  hist,             \* history, per key: what happened to the current entry
  arrivals,         \* history: invocations of the rate limiting middleware
  guard,            \* per direct call of the timeout middleware: its frame
  heap,             \* the context objects: object -> key -> value
  context,          \* per request: (req as RequestWithContext).context
  held,             \* the object the latest getContext returned to its caller
  format,           \* logger(): destructured from options
  includeBody,      \* logger(): destructured from options
  includeHeaders,   \* logger(): destructured from options
  logcall,          \* per call of the logger middleware: its frame
  origin,           \* cors(): destructured from options
  credentials,      \* cors(): destructured from options
  corscall          \* per call of the CORS middleware: its frame

limiter == <<keys, windowMs, maxRequests, skipSuccessfulRequests, clients, now, call,
             last, hist, arrivals>>
\* The state of the middleware factories other than the composition engine.
store == <<heap, context, held>>
logging == <<format, includeBody, includeHeaders, logcall>>
sharing == <<origin, credentials, corscall>>
others == <<limiter, guard, store, logging, sharing>>

vars == <<middlewares, options, composed, continueOnError, errorHandler,
          added, materialized, late, reqs, req, limiter, guard, store,
          logging, sharing>>
builder == <<middlewares, options, composed, continueOnError, errorHandler,
             added, materialized, late, reqs>>
\* What the rate limiter leaves alone.
besidesLimiter == <<builder, req, guard, store, logging,
  sharing>>
\* What a direct call of the timeout middleware leaves alone.
besidesGuard == <<builder, req, limiter, store, logging,
  sharing>>
\* What the context store leaves alone.
besidesStore == <<builder, req, limiter, guard, logging,
  sharing>>
\* What the CORS middleware leaves alone.
besidesCors == <<builder, req, limiter, guard, store, logging>>
\* What the logger leaves alone (its write of startTime is in the store's
\* loggerStart).
besidesLogger == <<builder, req, limiter, guard, store,
  sharing>>

\* ------------------------------------------------- responses and errors
\* What a promise holds: nothing yet, a Response, or a rejection (an Error
\* with its message in body).
None == [kind |-> "none", status |-> 0, body |-> ""]
Response(s, b) == [kind |-> "resp", status |-> s, body |-> b]
Error(m) == [kind |-> "err", status |-> 0, body |-> m]

DoubleInvocation == Error("next() called multiple times")
NoHandler == Error("No handler found")
RequestTimeout == Error("Request timeout")

\* Errors a middleware or the handler may throw themselves.
StageErrors == {Error("boom"), RequestTimeout}

HandlerResponse == Response(200, "handler")
MwResponse == Response(403, "middleware")
CustomErrorResponse == Response(502, "custom error handler")
TimeoutResponse == Response(408, "{\"error\":\"Request Timeout\"}")

defaultErrorHandler == Response(500, "{\"error\":\"Internal Server Error\"}")

\* ---------------------------------------------------------------- builder
OptionValues ==
  [continueOnError : {"unset", "true", "false"}, errorHandler : {"unset", "custom"}]

\* Variant of push: unshift instead of push.
pushFront(arr, m) == <<m>> \o arr

\* this.middlewares.push(middleware)
push(arr, m) == Append(arr, m)

\* { ...this.options, ...options }
merge(old, new) ==
  [f \in DOMAIN old |-> IF new[f] # "unset" THEN new[f] ELSE old[f]]

\* const { continueOnError = false, errorHandler = defaultErrorHandler } = options
destructureContinueOnError(o) == o.continueOnError = "true"
destructureErrorHandler(o) ==
  IF o.errorHandler = "unset" THEN "default" ELSE o.errorHandler

\* -------------------------------------------------------------- dispatch
StageInit ==
  [fn |-> "none",     \* what dispatch(i) selected: a middleware kind or "handler"
   st |-> "idle",     \* idle, pre (running, next() not yet called), wait
                      \* (awaiting next()), post (next() settled), done
   calls |-> 0,       \* history: times this stage called next()
   act |-> "none",    \* history: how it ended: own, pass, throw
   got |-> None,      \* what its latest next() settled with
   out |-> None,      \* what the promise of dispatch(i) settled with
   fwd |-> FALSE,     \* dispatch(i) returned dispatch(i + 1) from its catch
   timer |-> "unset", \* timeout guard: unset, pending, cleared, fired
   runs |-> 0]        \* history: times the stage function was invoked

ReqInit ==
  [status |-> "new", index |-> -1, stage |-> [i \in Slots |-> StageInit],
   started |-> <<>>,  \* history: stages in the order they were started
   ehRuns |-> 0]      \* history: times errorHandler was invoked

\* Variant of DoubleInvoked: index is one variable shared by all requests.
DoubleInvokedShared(i, idx) == \E r \in reqs : i <= req[r].index
\* Variant of DoubleInvoked: i < index instead of i <= index.
DoubleInvokedOffByOne(i, idx) == i < idx

\* if (i <= index) throw new Error("next() called multiple times")
DoubleInvoked(i, idx) == i <= idx

\* fn = middlewares[i] or handler
Fn(i) == IF i < Len(middlewares) THEN middlewares[i + 1] ELSE "handler"

StartStage(c, i) ==
  [c EXCEPT !.index = i,
            !.stage[i].fn = Fn(i),
            !.stage[i].st = "pre",
            !.stage[i].runs = @ + 1,
            !.started = Append(@, [i |-> i, fn |-> Fn(i)])]

\* dispatch(i) up to the invocation of fn: the closure after the call, and
\* the rejection the call ends with at once (None when fn was invoked and
\* the promise is pending).
dispatch(c, i) ==
  IF DoubleInvoked(i, c.index) THEN [c |-> c, now |-> DoubleInvocation]
  ELSE IF i > Len(middlewares)
       THEN [c |-> [c EXCEPT !.index = i], now |-> NoHandler]
       ELSE [c |-> StartStage(c, i), now |-> None]

\* The promise of dispatch(i) settles with o; a dispatch(i - 1) that
\* returned this promise from its catch block settles with it too.
RECURSIVE Settle(_, _, _)
Settle(c, i, o) ==
  LET c1 == [c EXCEPT !.stage[i].out = o, !.stage[i].fwd = FALSE]
  IN  IF i > 0 /\ c.stage[i - 1].fwd THEN Settle(c1, i - 1, o) ELSE c1

ErrorHandlerResponse ==
  IF errorHandler = "default" THEN defaultErrorHandler ELSE CustomErrorResponse

\* Variant of Caught: without continueOnError the error is rethrown to the
\* stage upstream.
CaughtRethrows(c, i, e) ==
  IF continueOnError
  THEN LET d == dispatch(c, i + 1)
       IN  IF d.now.kind = "none"
           THEN [d.c EXCEPT !.stage[i].fwd = TRUE]
           ELSE Settle(d.c, i, d.now)
  ELSE Settle(c, i, e)

\* Variant of Caught: the catch block ignores continueOnError.
CaughtAlwaysContinues(c, i, e) ==
  LET d == dispatch(c, i + 1)
  IN  IF d.now.kind = "none"
      THEN [d.c EXCEPT !.stage[i].fwd = TRUE]
      ELSE Settle(d.c, i, d.now)

\* catch (error) { if (continueOnError) return dispatch(i + 1);
\*                 else return await errorHandler(error, req) }
Caught(c, i, e) ==
  IF continueOnError
  THEN LET d == dispatch(c, i + 1)
       IN  IF d.now.kind = "none"
           THEN [d.c EXCEPT !.stage[i].fwd = TRUE]
           ELSE Settle(d.c, i, d.now)
  ELSE Settle([c EXCEPT !.ehRuns = @ + 1], i, ErrorHandlerResponse)

\* Variant of Returned: a response with an error status is handled as a throw.
ReturnedErrorStatusIsThrow(c, i, o) ==
  LET c1 == [c EXCEPT !.stage[i].st = "done"]
  IN  IF o.kind = "resp" /\ o.status < 400 THEN Settle(c1, i, o) ELSE Caught(c1, i, o)

\* try { return await fn(req, next) } catch ...: the stage function of
\* frame i ended with o (a Response it returned or an Error it threw).
Returned(c, i, o) ==
  LET c1 == [c EXCEPT !.stage[i].st = "done"]
  IN  IF o.kind = "resp" THEN Settle(c1, i, o) ELSE Caught(c1, i, o)

\* Variant of next: the closure is () => dispatch(i).
nextSameIndex(c, i) ==
  LET d == dispatch([c EXCEPT !.stage[i].calls = @ + 1], i)
  IN  IF d.now.kind = "none"
      THEN [d.c EXCEPT !.stage[i].st = "wait"]
      ELSE [d.c EXCEPT !.stage[i].st = "post", !.stage[i].got = d.now]

\* Variant of next: the stage goes on without awaiting the promise.
nextNotAwaited(c, i) ==
  LET d == dispatch([c EXCEPT !.stage[i].calls = @ + 1], i + 1)
  IN  [d.c EXCEPT !.stage[i].st = "post", !.stage[i].got = d.now]

\* A stage calls next(), i.e. () => dispatch(i + 1).
next(c, i) ==
  LET d == dispatch([c EXCEPT !.stage[i].calls = @ + 1], i + 1)
  IN  IF d.now.kind = "none"
      THEN [d.c EXCEPT !.stage[i].st = "wait"]
      ELSE [d.c EXCEPT !.stage[i].st = "post", !.stage[i].got = d.now]

At(r, i, f, s) ==
  /\ req[r].status = "active"
  /\ req[r].stage[i].fn = f
  /\ req[r].stage[i].st = s

Ended(c, i, a) == [c EXCEPT !.stage[i].act = a]

\* ---------------------------------------------------------- rate limiter
Keys == {"a", "b"}              \* what keyGenerator(req) returns
Calls == 1..MaxInFlight         \* frames of the rate limiting middleware
WindowChoices == {1000, 1500}   \* options.windowMs
LimitChoices == {1, 2}          \* options.maxRequests
TickSteps == {500}              \* milliseconds between two readings of the clock
NextStatuses == {200, 500}      \* status of the response next() resolves with
MsPerSecond == 1000

Max(a, b) == IF a >= b THEN a ELSE b
\* Math.ceil(a / b) for b > 0
Ceil(a, b) == -((-a) \div b)
\* Number.prototype.toString for a non-negative integer
Digits == <<"0", "1", "2", "3", "4", "5", "6", "7", "8", "9">>
RECURSIVE toString(_)
toString(n) ==
  IF n < 10 THEN Digits[n + 1] ELSE toString(n \div 10) \o Digits[(n % 10) + 1]

\* History only: clients.get(key) returned undefined.
NoClient == [count |-> -1, resetTime |-> -1]
\* clients.get(key)
get(key) == IF key \in DOMAIN clients THEN clients[key] ELSE NoClient

\* clients.set(key, entry), and the write into the entry of key
\* Variant of set: the table holds the written entry only.
setAlone(key, entry) == key :> entry
set(key, entry) == (key :> entry) @@ clients

\* now > client.resetTime
expired(client, t) == t > client.resetTime
\* { count: 1, resetTime: now + windowMs }
\* Variant of fresh: the window of the entry it replaces is kept.
freshKeepsWindow(client, t) ==
  [count |-> 1, resetTime |-> IF client = NoClient THEN t + windowMs
                              ELSE client.resetTime]
fresh(client, t) == [count |-> 1, resetTime |-> t + windowMs]
\* client.count++
\* Variant of increment: the window slides with the request.
incrementSliding(client) ==
  [count |-> client.count + 1, resetTime |-> now + windowMs]
\* Variant of increment: the write is lost.
incrementLost(client) == client
increment(client) == [client EXCEPT !.count = @ + 1]
\* client.count > maxRequests
\* Variant of overLimit: no request is over the limit.
overLimitNever(client) == FALSE
\* Variant of overLimit: >= instead of >.
overLimitInclusive(client) == client.count >= maxRequests
overLimit(client) == client.count > maxRequests
\* Math.ceil((client.resetTime - now) / 1000)
retryAfter(client, t) == Ceil(client.resetTime - t, MsPerSecond)
\* Math.max(0, maxRequests - client.count)
remaining(client) == Max(0, maxRequests - client.count)
\* currentClient.count = Math.max(0, currentClient.count - 1)
\* Variant of decrement: nothing is given back.
decrementNone(client) == client
decrement(client) == [client EXCEPT !.count = Max(0, @ - 1)]

HistInit ==
  [seen |-> 0,    \* requests that counted towards the current entry
   live |-> 0,    \* those of them whose count was not given back
   passed |-> 0,  \* those of them that were passed to next()
   seq |-> TRUE,  \* none of them arrived while another was in flight
   ok |-> TRUE]   \* all of them that completed were successful

CallInit ==
  [pc |-> "idle",         \* idle, next (awaiting next())
   key |-> "a",           \* keyGenerator(req)
   at |-> 0,              \* now
   post |-> NoClient,     \* history: the entry after the counting step
   k |-> 0,               \* history: hist[key].seen after the counting step
   seq |-> TRUE,          \* history: no other request of the key overlapped
   ok |-> TRUE]           \* history: hist[key].ok at arrival

\* History: the step the middleware took last, and the response or the
\* rejection it ended with if it ended.
LastInit ==
  [op |-> "none",         \* none, counted, rejected, resumed, threw
   key |-> "a", at |-> 0, k |-> 0, seq |-> TRUE, ok |-> TRUE,
   prev |-> NoClient,     \* the entry found by clients.get(key)
   post |-> NoClient,     \* the entry after the counting step
   calledNext |-> FALSE,  \* next() was called
   status |-> 0,          \* response.status, 0 while there is no response
   error |-> "",          \* body.error of the 429 response
   retryAfter |-> -1,     \* body.retryAfter of the 429 response
   hRetryAfter |-> "",    \* header Retry-After
   hRemaining |-> ""]     \* header X-RateLimit-Remaining

\* The rate limiter is not constructed.
NoLimiter ==
  /\ keys = {"a"}
  /\ windowMs = 1000
  /\ maxRequests = 1
  /\ skipSuccessfulRequests = FALSE
  /\ clients = [k \in {} |-> NoClient]
  /\ now = 0
  /\ call = [c \in Calls |-> CallInit]
  /\ last = LastInit
  /\ hist = [k \in Keys |-> HistInit]
  /\ arrivals = 0

\* ---------------------------------------------------------- timeout guard
Guards == {1, 2}                \* direct calls of the timeout middleware
\* What the next() handed to the timeout middleware settles with.
NextOutcomes ==
  {HandlerResponse, MwResponse, Error("boom"), NoHandler, RequestTimeout}

\* error instanceof Error && error.message === "Request timeout"
isTimeout(x) == x.kind = "err" /\ x.body = RequestTimeout.body
\* What the middleware ends with when the race settles with x: the value
\* it returns (a response) or throws (an error).
guardResult(x) == IF isTimeout(x) THEN TimeoutResponse ELSE x

GuardInit ==
  [pc |-> "idle",      \* idle, wait (awaiting the race), done
   timer |-> "unset",  \* unset, pending, cleared, fired
   cont |-> None,      \* what next() settled with
   got |-> None,       \* what the race settled with
   out |-> None]       \* what the middleware returned or threw

\* The timeout middleware is not called directly.
NoGuard == guard = [g \in Guards |-> GuardInit]

\* ---------------------------------------------------------- context store
CtxKeys == {"user", "startTime"}   \* keys of a RequestContext
CtxValues == {1, 2}                \* values stored under a key
Undefined == 0                     \* what an absent key reads as
\* The objects alive at once: initialContext, the context of each request,
\* the object a caller holds, and one being created.
Objs == 1..(Cardinality(Reqs) + 3)
InitialObj == 1                    \* withContext(initialContext)
NoObj == 0                         \* req.context is undefined
\* {}
Empty == [k \in CtxKeys |-> Undefined]
\* What withContext was given as initialContext.
InitialContexts == {Empty, [Empty EXCEPT !["user"] = 1]}

Referenced(c, h, o) ==
  o = InitialObj \/ h = o \/ \E r \in Reqs : c[r] = o
\* A new object: one that nothing refers to.
New == CHOOSE o \in Objs :
         /\ ~Referenced(context, held, o)
         /\ \A q \in Objs : q < o => Referenced(context, held, q)
\* Objects nothing refers to any more are gone.
Collect(hp, c, h) ==
  [o \in Objs |-> IF Referenced(c, h, o) THEN hp[o] ELSE Empty]

\* req.context || {}: the object getContext(req) returns.
getContext(r) == IF context[r] # NoObj THEN context[r] ELSE New
\* What a caller reads through getContext(req), in the state at hand.
Read(r) == IF context[r] # NoObj THEN heap[context[r]] ELSE Empty
\* { ...initialContext }: the object withContext assigns to req.context.
\* Variant of spread: initialContext itself, not a copy.
spreadNoCopy(new) == InitialObj
spread(new) == new

\* No request carries a context.
NoStore ==
  /\ heap = [o \in Objs |-> Empty]
  /\ context = [r \in Reqs |-> NoObj]
  /\ held = NoObj

\* ----------------------------------------------------------------- logger
Logs == {1, 2}                      \* calls of the logger middleware
Formats == {"simple", "detailed", "json"}
Bodies == {"null", "readable", "unreadable"}   \* req.body and whether
                                               \* clonedRequest.text() succeeds
\* What the next() handed to the logger settles with.
LogOutcomes == {HandlerResponse, MwResponse, Error("boom")}
\* What building or emitting the log record throws when it fails.
EmitError == Error("emit")

\* requestBody after the guarded read of the body.
readBody(body) ==
  IF includeBody /\ body # "null"
  THEN (IF body = "readable" THEN "text" ELSE "[Unable to read body]")
  ELSE "none"
\* The console.log calls of the switch on format.
consoleLines(requestBody) ==
  IF format = "detailed"
  THEN 1 + (IF includeHeaders THEN 1 ELSE 0)
         + (IF requestBody # "none" THEN 1 ELSE 0)
  ELSE 1

LogInit ==
  [pc |-> "idle",           \* idle, wait (awaiting next()), done
   requestBody |-> "none",  \* none, text, [Unable to read body]
   cont |-> None,           \* what next() settled with
   lines |-> 0,             \* history: console.log calls made
   out |-> None]            \* what the middleware returned or threw

\* The logger is not constructed.
NoLogger ==
  /\ format = "simple"
  /\ includeBody = FALSE
  /\ includeHeaders = FALSE
  /\ logcall = [l \in Logs |-> LogInit]

\* ------------------------------------------------------------------- CORS
Cors == {1, 2}                      \* calls of the CORS middleware
Methods == {"OPTIONS", "GET"}       \* req.method
NoHeader == "(absent)"              \* headers.get(name) returns null
\* req.headers.get("Origin")
RequestOrigins == {NoHeader, "", "https://a.com", "https://c.com"}
\* options.origin: a string, or an array of strings
OriginChoices ==
  {[isArray |-> FALSE, str |-> "*", list |-> <<>>],
   [isArray |-> TRUE, str |-> "", list |-> <<>>],
   [isArray |-> TRUE, str |-> "", list |-> <<"https://a.com">>],
   [isArray |-> TRUE, str |-> "", list |-> <<"https://a.com", "https://b.com">>],
   [isArray |-> TRUE, str |-> "", list |-> <<"https://a.com", "">>]}

\* A response as far as CORS is concerned: its status and two headers.
CorsResponse(s, o, cr) ==
  [kind |-> "resp", status |-> s, allowOrigin |-> o, allowCredentials |-> cr]
CorsNone ==
  [kind |-> "none", status |-> 0, allowOrigin |-> NoHeader,
   allowCredentials |-> NoHeader]
CorsError ==
  [kind |-> "err", status |-> 0, allowOrigin |-> NoHeader,
   allowCredentials |-> NoHeader]
\* What the next() handed to the CORS middleware settles with.
CorsOutcomes ==
  {CorsResponse(200, NoHeader, NoHeader),
   CorsResponse(200, "https://down.example", NoHeader),
   CorsError}

\* origin.includes(requestOrigin)
includes(list, x) == \E p \in 1..Len(list) : list[p] = x
\* requestOrigin && ...: null and "" are falsy
truthy(x) == x # NoHeader /\ x # ""
\* The Access-Control-Allow-Origin branch, the same for both responses.
\* Variant of setAllowOrigin: an array echoes whatever Origin was sent.
setAllowOriginEcho(resp, requestOrigin) ==
  IF ~origin.isArray
  THEN [resp EXCEPT !.allowOrigin = origin.str]
  ELSE IF truthy(requestOrigin)
       THEN [resp EXCEPT !.allowOrigin = requestOrigin]
       ELSE resp
setAllowOrigin(resp, requestOrigin) ==
  IF ~origin.isArray
  THEN [resp EXCEPT !.allowOrigin = origin.str]
  ELSE IF truthy(requestOrigin) /\ includes(origin.list, requestOrigin)
       THEN [resp EXCEPT !.allowOrigin = requestOrigin]
       ELSE resp
\* if (credentials) response.headers.set("Access-Control-Allow-Credentials", "true")
setAllowCredentials(resp) ==
  IF credentials THEN [resp EXCEPT !.allowCredentials = "true"] ELSE resp

CorsInit ==
  [pc |-> "idle",               \* idle, wait (awaiting next()), done
   method |-> "GET",            \* req.method
   requestOrigin |-> NoHeader,  \* req.headers.get("Origin")
   calledNext |-> FALSE,        \* history: next() was called
   cont |-> CorsNone,           \* what next() settled with
   out |-> CorsNone]            \* what the middleware returned or threw

\* The CORS middleware is not constructed.
NoCors ==
  /\ origin = [isArray |-> FALSE, str |-> "*", list |-> <<>>]
  /\ credentials = FALSE
  /\ corscall = [c \in Cors |-> CorsInit]

\* ---------------------------------------------------------------- actions
InitChain ==
  /\ middlewares = <<>>
  /\ options = [continueOnError |-> "unset", errorHandler |-> "unset"]
  /\ composed = FALSE
  /\ continueOnError = FALSE
  /\ errorHandler = "default"
  /\ added = <<>>
  /\ materialized = <<>>
  /\ reqs = {1}
  /\ req = [r \in Reqs |-> ReqInit]

\* The builder is discarded once handle() has returned.
Init ==
  /\ InitChain /\ late = FALSE
  /\ NoLimiter /\ NoGuard /\ NoStore /\ NoLogger /\ NoCors

\* The builder is kept, and used, after handle() has returned.
InitLate ==
  /\ InitChain /\ late = TRUE
  /\ NoLimiter /\ NoGuard /\ NoStore /\ NoLogger /\ NoCors

\* MiddlewareChain.use
use(m) ==
  /\ late \/ ~composed
  /\ Len(middlewares) < MaxMw
  /\ middlewares' = push(middlewares, m)
  /\ added' = Append(added, m)
  /\ UNCHANGED <<options, composed, continueOnError, errorHandler, materialized,
                 late, reqs, req, others>>

\* MiddlewareChain.configure
configure(o) ==
  /\ late \/ ~composed
  /\ options' = merge(options, o)
  /\ UNCHANGED <<middlewares, composed, continueOnError, errorHandler, added,
                 materialized, late, reqs, req, others>>

\* MiddlewareChain.handle -> compose(this.middlewares, handler, this.options)
handle ==
  /\ ~composed
  /\ composed' = TRUE
  /\ continueOnError' = destructureContinueOnError(options)
  /\ errorHandler' = destructureErrorHandler(options)
  /\ materialized' = middlewares
  /\ UNCHANGED <<middlewares, options, added, late, reqs, req, others>>

\* composedHandler(req): let index = -1; return dispatch(0)
composedHandler(r) ==
  /\ composed
  /\ r \in reqs
  /\ req[r].status = "new"
  /\ req' = [req EXCEPT ![r] = dispatch([ReqInit EXCEPT !.status = "active"], 0).c]
  /\ UNCHANGED <<builder, others>>

\* A middleware calls next() for the first time.
MwCallNext(r, i) ==
  /\ At(r, i, "mw", "pre")
  /\ req' = [req EXCEPT ![r] = next(req[r], i)]
  /\ UNCHANGED <<builder, others>>

\* A middleware returns a response of its own without calling next().
MwShortCircuit(r, i) ==
  /\ At(r, i, "mw", "pre")
  /\ req' = [req EXCEPT ![r] = Returned(Ended(req[r], i, "own"), i, MwResponse)]
  /\ UNCHANGED <<builder, others>>

\* A middleware throws before calling next().
MwThrowBefore(r, i) ==
  /\ At(r, i, "mw", "pre")
  /\ \E e \in StageErrors :
       req' = [req EXCEPT ![r] = Returned(Ended(req[r], i, "throw"), i, e)]
  /\ UNCHANGED <<builder, others>>

\* await next() resumes with what dispatch(i + 1) settled with.
MwResume(r, i) ==
  /\ At(r, i, "mw", "wait")
  /\ i + 1 \in Slots
  /\ req[r].stage[i + 1].out.kind # "none"
  /\ req' = [req EXCEPT ![r].stage[i].st = "post",
                        ![r].stage[i].got = req[r].stage[i + 1].out]
  /\ UNCHANGED <<builder, others>>

\* A middleware returns what next() returned, or lets its rejection propagate.
MwPass(r, i) ==
  /\ At(r, i, "mw", "post")
  /\ req' = [req EXCEPT ![r] =
               Returned(Ended(req[r], i, "pass"), i, req[r].stage[i].got)]
  /\ UNCHANGED <<builder, others>>

\* A middleware returns a response of its own after next() settled
\* (replacing the response, or catching the rejection).
MwReplace(r, i) ==
  /\ At(r, i, "mw", "post")
  /\ req' = [req EXCEPT ![r] = Returned(Ended(req[r], i, "own"), i, MwResponse)]
  /\ UNCHANGED <<builder, others>>

\* A middleware throws an error of its own after next() settled.
MwThrowAfter(r, i) ==
  /\ At(r, i, "mw", "post")
  /\ \E e \in StageErrors :
       req' = [req EXCEPT ![r] = Returned(Ended(req[r], i, "throw"), i, e)]
  /\ UNCHANGED <<builder, others>>

\* A middleware calls next() again.
MwCallNextAgain(r, i) ==
  /\ At(r, i, "mw", "post")
  /\ req[r].stage[i].calls < MaxCalls
  /\ req' = [req EXCEPT ![r] = next(req[r], i)]
  /\ UNCHANGED <<builder, others>>

\* The terminal handler returns its response.
HandlerReturn(r, i) ==
  /\ At(r, i, "handler", "pre")
  /\ req' = [req EXCEPT ![r] = Returned(Ended(req[r], i, "own"), i, HandlerResponse)]
  /\ UNCHANGED <<builder, others>>

\* The terminal handler throws.
HandlerThrow(r, i) ==
  /\ At(r, i, "handler", "pre")
  /\ \E e \in StageErrors :
       req' = [req EXCEPT ![r] = Returned(Ended(req[r], i, "throw"), i, e)]
  /\ UNCHANGED <<builder, others>>

\* timeout(): setTimeout(...); Promise.race([next(), timeoutPromise])
TimeoutStart(r, i) ==
  /\ At(r, i, "timeout", "pre")
  /\ req' = [req EXCEPT ![r] = next([req[r] EXCEPT !.stage[i].timer = "pending"], i)]
  /\ UNCHANGED <<builder, others>>

\* clearTimeout(timeoutId): a pending timer is cancelled, a fired one stays.
\* Variant of clearTimeout: only a timer that already fired is marked.
clearTimeoutOnlyFired(t) == IF t = "fired" THEN "cleared" ELSE t
\* Variant of clearTimeout: the timer is left as it is.
clearTimeoutNoop(t) == t
clearTimeout(t) == IF t = "pending" THEN "cleared" ELSE t

\* What the timeout guard does with the outcome x of the race:
\* clearTimeout, then return the response, or turn an Error whose message
\* is "Request timeout" into the 408 response, or rethrow.
\* Variant of TimeoutOutcome: the timeout error is rethrown like any other.
TimeoutOutcomeRethrows(c, i, x) ==
  Returned(Ended([c EXCEPT !.stage[i].timer = clearTimeout(@),
                           !.stage[i].got = x], i, "pass"), i, x)
TimeoutOutcome(c, i, x) ==
  LET c1 == [c EXCEPT !.stage[i].timer = clearTimeout(@),
                      !.stage[i].got = x]
  IN  Returned(Ended(c1, i, IF isTimeout(x) THEN "own" ELSE "pass"), i,
               guardResult(x))

\* next() settles before the deadline.
TimeoutDownstream(r, i) ==
  /\ At(r, i, "timeout", "wait")
  /\ i + 1 \in Slots
  /\ req[r].stage[i + 1].out.kind # "none"
  /\ req' = [req EXCEPT ![r] = TimeoutOutcome(req[r], i, req[r].stage[i + 1].out)]
  /\ UNCHANGED <<builder, others>>

\* The deadline fires, which it does whenever the timer is still pending:
\* controller.abort() rejects timeoutPromise with Error("Request timeout").
\* While next() is pending that rejection wins the race; once the guard
\* has returned it has no one to tell.
TimeoutFire(r, i) ==
  /\ req[r].status = "active"
  /\ req[r].stage[i].fn = "timeout"
  /\ req[r].stage[i].timer = "pending"
  /\ i + 1 \in Slots
  /\ IF req[r].stage[i].st = "wait"
     THEN req[r].stage[i + 1].out.kind = "none"
     ELSE req[r].stage[i].st = "done"
  /\ req' = [req EXCEPT ![r] =
               IF req[r].stage[i].st = "wait"
               THEN TimeoutOutcome([req[r] EXCEPT !.stage[i].timer = "fired"], i,
                                   RequestTimeout)
               ELSE [req[r] EXCEPT !.stage[i].timer = "fired"]]
  /\ UNCHANGED <<builder, others>>

Next ==
  \/ \E m \in Kinds : use(m)
  \/ \E o \in OptionValues : configure(o)
  \/ handle
  \/ \E r \in Reqs : composedHandler(r)
  \/ \E r \in Reqs, i \in Slots :
       \/ MwCallNext(r, i)
       \/ MwShortCircuit(r, i)
       \/ MwThrowBefore(r, i)
       \/ MwResume(r, i)
       \/ MwPass(r, i)
       \/ MwReplace(r, i)
       \/ MwThrowAfter(r, i)
       \/ MwCallNextAgain(r, i)
       \/ HandlerReturn(r, i)
       \/ HandlerThrow(r, i)
       \/ TimeoutStart(r, i)
       \/ TimeoutDownstream(r, i)
       \/ TimeoutFire(r, i)

Spec == Init /\ [][Next]_vars

\* The same program with a caller that goes on using the builder.
SpecLate == InitLate /\ [][Next]_vars

\* ------------------------------------------------- concurrent requests
\* The chains the composed handler of the concurrent requests was built from.
ChainChoices == {<<"mw">>, <<"timeout", "mw">>}

\* handle() has returned the composed handler of one of the chains, and
\* every request of Reqs is sent to it.
InitConcurrent ==
  /\ middlewares \in ChainChoices
  /\ added = middlewares
  /\ materialized = middlewares
  /\ options \in {o \in OptionValues : o.errorHandler = "unset"}
  /\ continueOnError = destructureContinueOnError(options)
  /\ errorHandler = destructureErrorHandler(options)
  /\ composed = TRUE
  /\ late = FALSE
  /\ reqs = Reqs
  /\ req = [r \in Reqs |-> ReqInit]
  /\ NoLimiter /\ NoGuard /\ NoStore /\ NoLogger /\ NoCors

\* The steps of the requests: the composed handler is not rebuilt.
NextConcurrent ==
  \/ \E r \in Reqs : composedHandler(r)
  \/ \E r \in Reqs, i \in Slots :
       \/ MwCallNext(r, i)
       \/ MwShortCircuit(r, i)
       \/ MwThrowBefore(r, i)
       \/ MwResume(r, i)
       \/ MwPass(r, i)
       \/ MwReplace(r, i)
       \/ MwThrowAfter(r, i)
       \/ MwCallNextAgain(r, i)
       \/ HandlerReturn(r, i)
       \/ HandlerThrow(r, i)
       \/ TimeoutStart(r, i)
       \/ TimeoutDownstream(r, i)
       \/ TimeoutFire(r, i)

SpecConcurrent == InitConcurrent /\ [][NextConcurrent]_vars

\* ------------------------------------------------- rate limiter: actions
\* rateLimit(options): the options are destructured, clients is empty.
InitLimiter ==
  /\ InitChain /\ late = FALSE /\ NoGuard /\ NoStore /\ NoLogger /\ NoCors
  /\ keys = {"a"}
  /\ windowMs \in WindowChoices
  /\ maxRequests \in LimitChoices
  /\ skipSuccessfulRequests \in BOOLEAN
  /\ clients = [k \in {} |-> NoClient]
  /\ now = 0
  /\ call = [c \in Calls |-> CallInit]
  /\ last = LastInit
  /\ hist = [k \in Keys |-> HistInit]
  /\ arrivals = 0

InFlight(key) == \E d \in Calls : call[d].pc = "next" /\ call[d].key = key
\* The frame a new invocation gets: the first free one.
Free(c) == call[c].pc = "idle" /\ \A d \in Calls : d < c => call[d].pc # "idle"

\* The middleware up to await next(): the lookup, the reset or the
\* increment, and the 429 response.  No await: one atomic step.
rateLimit(c, key) ==
  LET client == get(key)
      reset == client = NoClient \/ expired(client, now)
      post == IF reset THEN fresh(client, now) ELSE increment(client)
      rejected == ~reset /\ overLimit(post)
      h == hist[key]
      h1 == [seen |-> IF reset THEN 1 ELSE h.seen + 1,
             live |-> IF reset THEN 1 ELSE h.live + 1,
             passed |-> IF reset THEN 1
                        ELSE IF rejected THEN h.passed ELSE h.passed + 1,
             seq |-> (reset \/ h.seq) /\ ~InFlight(key),
             ok |-> reset \/ h.ok]
      frame == [pc |-> "next", key |-> key, at |-> now, post |-> post,
                k |-> h1.seen, seq |-> h1.seq, ok |-> h1.ok]
  IN  /\ Free(c)
      /\ arrivals < MaxArrivals
      /\ arrivals' = arrivals + 1
      /\ clients' = set(key, post)
      /\ hist' = [hist EXCEPT ![key] = IF rejected THEN [h1 EXCEPT !.ok = FALSE]
                                       ELSE h1]
      /\ call' = [d \in Calls |->
                    IF d = c THEN (IF rejected THEN CallInit ELSE frame)
                    ELSE IF call[d].pc = "next" /\ call[d].key = key
                         THEN [call[d] EXCEPT !.seq = FALSE]
                         ELSE call[d]]
      /\ last' = [LastInit EXCEPT
                    !.op = IF rejected THEN "rejected" ELSE "counted",
                    !.key = key, !.at = now, !.prev = client, !.post = post,
                    !.k = h1.seen, !.seq = h1.seq, !.ok = h1.ok,
                    !.calledNext = ~rejected,
                    !.status = IF rejected THEN 429 ELSE 0,
                    !.error = IF rejected THEN "Too Many Requests" ELSE "",
                    !.retryAfter = IF rejected THEN retryAfter(post, now) ELSE -1,
                    !.hRetryAfter =
                      IF rejected THEN toString(retryAfter(post, now)) ELSE "",
                    !.hRemaining =
                      IF rejected THEN toString(remaining(post)) ELSE ""]
      /\ UNCHANGED <<keys, windowMs, maxRequests, skipSuccessfulRequests, now,
                     besidesLimiter>>

\* The record of a frame that has ended.
Outcome(c, op) ==
  [LastInit EXCEPT !.op = op, !.key = call[c].key, !.at = call[c].at,
                   !.k = call[c].k, !.seq = call[c].seq, !.ok = call[c].ok,
                   !.post = call[c].post, !.calledNext = TRUE]

\* next() resolves with a response of status s and the middleware resumes:
\* the decrement for a successful request, then the response headers.
rateLimitResume(c, s) ==
  LET key == call[c].key
      giveBack == skipSuccessfulRequests /\ s < 400
      clients1 == IF giveBack /\ key \in DOMAIN clients
                  THEN set(key, decrement(clients[key]))
                  ELSE clients
      same == call[c].post.resetTime = clients[key].resetTime
  IN  /\ call[c].pc = "next"
      /\ clients' = clients1
      /\ call' = [call EXCEPT ![c] = CallInit]
      /\ last' = [Outcome(c, "resumed") EXCEPT
                    !.status = s,
                    !.hRemaining = toString(remaining(clients1[key]))]
      /\ hist' = [hist EXCEPT
                    ![key].live = IF giveBack /\ same THEN @ - 1 ELSE @,
                    ![key].ok = IF same /\ s >= 400 THEN FALSE ELSE @]
      /\ UNCHANGED <<keys, windowMs, maxRequests, skipSuccessfulRequests, now,
                     arrivals, besidesLimiter>>

\* next() rejects: await next() throws out of the middleware.
rateLimitNextThrows(c) ==
  LET key == call[c].key
      same == call[c].post.resetTime = clients[key].resetTime
  IN  /\ call[c].pc = "next"
      /\ call' = [call EXCEPT ![c] = CallInit]
      /\ last' = Outcome(c, "threw")
      /\ hist' = [hist EXCEPT ![key].ok = IF same THEN FALSE ELSE @]
      /\ UNCHANGED <<keys, windowMs, maxRequests, skipSuccessfulRequests, clients,
                     now, arrivals, besidesLimiter>>

\* Time passes between two readings of Date.now().
Tick(d) ==
  /\ now + d <= MaxNow
  /\ now' = now + d
  /\ UNCHANGED <<keys, windowMs, maxRequests, skipSuccessfulRequests, clients, call,
                 last, hist, arrivals, besidesLimiter>>

NextLimiter ==
  \/ \E c \in Calls, key \in keys : rateLimit(c, key)
  \/ \E c \in Calls, s \in NextStatuses : rateLimitResume(c, s)
  \/ \E c \in Calls : rateLimitNextThrows(c)
  \/ \E d \in TickSteps : Tick(d)

SpecLimiter == InitLimiter /\ [][NextLimiter]_vars

\* The same middleware serving the requests of two clients.
InitKeys ==
  /\ InitChain /\ late = FALSE /\ NoGuard /\ NoStore /\ NoLogger /\ NoCors
  /\ keys = Keys
  /\ windowMs \in WindowChoices
  /\ maxRequests = 1
  /\ skipSuccessfulRequests = TRUE
  /\ clients = [k \in {} |-> NoClient]
  /\ now = 0
  /\ call = [c \in Calls |-> CallInit]
  /\ last = LastInit
  /\ hist = [k \in Keys |-> HistInit]
  /\ arrivals = 0

SpecKeys == InitKeys /\ [][NextLimiter]_vars

\* ------------------------------------------------ timeout guard: actions
\* timeout(timeoutMs) called directly, with a next() of the caller's.
InitGuard ==
  /\ InitChain /\ late = FALSE /\ NoLimiter /\ NoStore /\ NoLogger /\ NoCors
  /\ guard = [g \in Guards |-> GuardInit]

\* The middleware is called: setTimeout, then next() inside the race.
guardCall(g) ==
  /\ guard[g].pc = "idle"
  /\ guard' = [guard EXCEPT ![g].pc = "wait", ![g].timer = "pending"]
  /\ UNCHANGED besidesGuard

\* next() settles with x.  While the middleware awaits the race it resumes
\* with x: clearTimeout, then return or convert or rethrow.  Once the
\* middleware has returned, x is the settlement of a promise no one awaits.
guardNextSettles(g, x) ==
  /\ guard[g].pc \in {"wait", "done"}
  /\ guard[g].cont = None
  /\ guard' = [guard EXCEPT ![g] =
                 IF @.pc = "wait"
                 THEN [pc |-> "done", timer |-> clearTimeout(@.timer),
                       cont |-> x, got |-> x, out |-> guardResult(x)]
                 ELSE [@ EXCEPT !.cont = x]]
  /\ UNCHANGED besidesGuard

\* The deadline fires, which it does whenever the timer is still pending:
\* the race rejects with Error("Request timeout") if it is still awaited.
guardDeadline(g) ==
  /\ guard[g].timer = "pending"
  /\ guard[g].pc \in {"wait", "done"}
  /\ guard' = [guard EXCEPT ![g] =
                 IF @.pc = "wait"
                 THEN [pc |-> "done", timer |-> clearTimeout("fired"),
                       cont |-> @.cont, got |-> RequestTimeout,
                       out |-> guardResult(RequestTimeout)]
                 ELSE [@ EXCEPT !.timer = "fired"]]
  /\ UNCHANGED besidesGuard

NextGuard ==
  \/ \E g \in Guards : guardCall(g)
  \/ \E g \in Guards, x \in NextOutcomes : guardNextSettles(g, x)
  \/ \E g \in Guards : guardDeadline(g)

SpecGuard == InitGuard /\ [][NextGuard]_vars

\* ------------------------------------------------ context store: actions
InitStore ==
  /\ InitChain /\ late = FALSE /\ NoLimiter /\ NoGuard /\ NoLogger /\ NoCors
  /\ heap \in {[o \in Objs |-> IF o = InitialObj THEN i ELSE Empty] :
                 i \in InitialContexts}
  /\ context = [r \in Reqs |-> NoObj]
  /\ held = NoObj

\* The withContext middleware runs on request r.
withContext(r) ==
  LET o == spread(New)
      c == [context EXCEPT ![r] = o]
  IN  /\ context' = c
      /\ heap' = Collect([heap EXCEPT ![o] = heap[InitialObj]], c, held)
      /\ UNCHANGED <<held, besidesStore>>

\* A caller calls getContext(req) and keeps what it returns.
getContextCall(r) ==
  LET h == getContext(r)
  IN  /\ held' = h
      /\ heap' = Collect(heap, context, h)
      /\ UNCHANGED <<context, besidesStore>>

\* A caller writes a key of the object getContext(req) returned to it.
writeThrough(k, v) ==
  /\ held # NoObj
  /\ heap' = [heap EXCEPT ![held][k] = v]
  /\ UNCHANGED <<context, held, besidesStore>>

\* setContext(req, key, value): getContext, write, assign req.context.
setContext(r, k, v) ==
  LET o == getContext(r)
      c == [context EXCEPT ![r] = o]
  IN  /\ context' = c
      /\ heap' = Collect([heap EXCEPT ![o][k] = v], c, held)
      /\ UNCHANGED <<held, besidesStore>>

\* The logger middleware starts on request r:
\* setContext(req, "startTime", start).
loggerStart(r, start) == setContext(r, "startTime", start)

NextStore ==
  \/ \E r \in Reqs : withContext(r)
  \/ \E r \in Reqs : getContextCall(r)
  \/ \E k \in CtxKeys, v \in CtxValues : writeThrough(k, v)
  \/ \E r \in Reqs, k \in CtxKeys, v \in CtxValues : setContext(r, k, v)
  \/ \E r \in Reqs, start \in CtxValues : loggerStart(r, start)

SpecStore == InitStore /\ [][NextStore]_vars

\* ------------------------------------------------------- logger: actions
\* logger(options): the options are destructured.
InitLogger ==
  /\ InitChain /\ late = FALSE /\ NoLimiter /\ NoGuard /\ NoStore /\ NoCors
  /\ format \in Formats
  /\ includeBody \in BOOLEAN
  /\ includeHeaders \in BOOLEAN
  /\ logcall = [l \in Logs |-> LogInit]

\* The middleware up to await next(): the start time, the guarded read of
\* the request body.
loggerCall(l, body) ==
  /\ logcall[l].pc = "idle"
  /\ logcall' = [logcall EXCEPT ![l].pc = "wait",
                                ![l].requestBody = readBody(body)]
  /\ UNCHANGED <<format, includeBody, includeHeaders, besidesLogger>>

\* next() settles with x and the middleware resumes.  A rejection is
\* thrown by the await.  After a response the record is built and emitted,
\* which succeeds or throws, and nothing catches what it throws.
loggerNextSettles(l, x, emitted) ==
  /\ logcall[l].pc = "wait"
  /\ logcall' = [logcall EXCEPT ![l] =
                   IF x.kind = "err"
                   THEN [@ EXCEPT !.pc = "done", !.cont = x, !.out = x]
                   ELSE IF emitted
                   THEN [@ EXCEPT !.pc = "done", !.cont = x, !.out = x,
                                  !.lines = consoleLines(logcall[l].requestBody)]
                   ELSE [@ EXCEPT !.pc = "done", !.cont = x,
                                  !.out = EmitError]]
  /\ UNCHANGED <<format, includeBody, includeHeaders, besidesLogger>>

NextLogger ==
  \/ \E l \in Logs, body \in Bodies : loggerCall(l, body)
  \/ \E l \in Logs, x \in LogOutcomes, emitted \in BOOLEAN :
       loggerNextSettles(l, x, emitted)

SpecLogger == InitLogger /\ [][NextLogger]_vars

\* --------------------------------------------------------- CORS: actions
\* cors(options): the options are destructured.
InitCors ==
  /\ InitChain /\ late = FALSE /\ NoLimiter /\ NoGuard /\ NoStore /\ NoLogger
  /\ origin \in OriginChoices
  /\ credentials \in BOOLEAN
  /\ corscall = [c \in Cors |-> CorsInit]

\* The middleware up to await next(): a preflight request is answered at
\* once, any other request is passed on.
corsCall(c, method, requestOrigin) ==
  /\ corscall[c].pc = "idle"
  /\ corscall' = [corscall EXCEPT ![c] =
       IF method = "OPTIONS"
       THEN [CorsInit EXCEPT
               !.pc = "done", !.method = method,
               !.requestOrigin = requestOrigin,
               !.out = setAllowCredentials(
                         setAllowOrigin(CorsResponse(204, NoHeader, NoHeader),
                                        requestOrigin))]
       ELSE [CorsInit EXCEPT
               !.pc = "wait", !.method = method,
               !.requestOrigin = requestOrigin, !.calledNext = TRUE]]
  /\ UNCHANGED <<origin, credentials, besidesCors>>

\* next() settles with x: a rejection is thrown by the await, a response
\* gets the headers and is returned.
corsNextSettles(c, x) ==
  /\ corscall[c].pc = "wait"
  /\ corscall' = [corscall EXCEPT
       ![c].pc = "done",
       ![c].cont = x,
       ![c].out = IF x.kind = "err" THEN x
                  ELSE setAllowCredentials(
                         setAllowOrigin(x, corscall[c].requestOrigin))]
  /\ UNCHANGED <<origin, credentials, besidesCors>>

NextCors ==
  \/ \E c \in Cors, method \in Methods, requestOrigin \in RequestOrigins :
       corsCall(c, method, requestOrigin)
  \/ \E c \in Cors, x \in CorsOutcomes : corsNextSettles(c, x)

SpecCors == InitCors /\ [][NextCors]_vars

\* ------------------------------------------------------------ properties
N == Len(middlewares)
Stage(r, i) == req[r].stage[i]
Result(r) == Stage(r, 0).out
Completed(r) == req[r].status = "active" /\ Result(r).kind # "none"

\* Stage i called its continuation once and returned its result unchanged.
PassThrough(r, i) ==
  Stage(r, i).st = "done" /\ Stage(r, i).calls = 1 /\ Stage(r, i).act = "pass"
\* Stage i returned a response without calling its continuation.
ShortCircuited(r, i) ==
  /\ Stage(r, i).fn \in Kinds
  /\ Stage(r, i).st = "done" /\ Stage(r, i).calls = 0 /\ Stage(r, i).act = "own"
\* Stage i raised an error of its own.
Raised(r, i) == Stage(r, i).st = "done" /\ Stage(r, i).act = "throw"
HandlerRan(r) == \E i \in Slots : Stage(r, i).fn = "handler" /\ Stage(r, i).runs > 0
HandlerThrew(r) == \E i \in Slots : Stage(r, i).fn = "handler" /\ Raised(r, i)
UpstreamPassThrough(r, i) == \A j \in 0..(i - 1) : PassThrough(r, j)

\* C1: when every middleware is a pure pass-through (the chain may be
\* empty) and the terminal handler returns a response, the composed handler
\* returns exactly that response and the terminal handler ran exactly once.
C1_PassThroughReturnsHandlerResponse ==
  \A r \in reqs :
    (Completed(r) /\ UpstreamPassThrough(r, N) /\ ~HandlerThrew(r))
      => (Result(r) = HandlerResponse /\ Stage(r, N).runs = 1)

C1_Witness ==
  \E r \in reqs :
    /\ N = MaxMw /\ Completed(r) /\ UpstreamPassThrough(r, N)
    /\ Result(r) = HandlerResponse

\* C2: once a middleware has returned a response without calling its
\* continuation, no later stage and not the terminal handler has run or
\* ever runs for that request, under either error policy.
C2_ShortCircuitStopsChain ==
  \A r \in reqs : \A i \in Slots :
    ShortCircuited(r, i) => \A j \in Slots : j > i => Stage(r, j).runs = 0

C2_Witness ==
  \E r \in reqs :
    /\ continueOnError /\ Completed(r) /\ N >= 2
    /\ ShortCircuited(r, 1) /\ Raised(r, 0) /\ Stage(r, 0).calls = 1

\* C3: no middleware and not the terminal handler is invoked more than once
\* per request, and a stage whose latest call of its continuation was not
\* its first holds the double-invocation error as that call's result.
C3_EachStageAtMostOnce ==
  \A r \in reqs : \A i \in Slots :
    /\ Stage(r, i).runs <= 1
    /\ (Stage(r, i).st = "post" /\ Stage(r, i).calls >= 2)
         => Stage(r, i).got = DoubleInvocation

C3_Witness ==
  \E r \in reqs : \E i \in Slots :
    /\ Stage(r, i).st = "post" /\ Stage(r, i).calls = 2
    /\ \A j \in Slots : j > i /\ j <= N => Stage(r, j).runs = 1

\* C4: when a middleware calls its continuation a second time and lets the
\* resulting error propagate, and every stage upstream of it is a
\* pass-through, the caller receives the double-invocation error, under
\* either error policy.
C4_DoubleInvocationSurfaces ==
  \A r \in reqs : \A i \in Slots :
    ( /\ Completed(r)
      /\ Stage(r, i).fn = "mw" /\ Stage(r, i).st = "done"
      /\ Stage(r, i).calls >= 2 /\ Stage(r, i).act = "pass"
      /\ UpstreamPassThrough(r, i) )
    => Result(r) = DoubleInvocation

\* C5 as claimed: with continueOnError = false and the default error
\* handler, a middleware that raises at any point yields the 500 response
\* and no later stage nor the terminal handler runs.
C5_RaiseAnywhereStopsChain ==
  \A r \in reqs : \A i \in Slots :
    (~continueOnError /\ errorHandler = "default" /\ Stage(r, i).fn = "mw" /\ Raised(r, i))
    => /\ Stage(r, i).out = defaultErrorHandler
       /\ \A j \in Slots : j > i => Stage(r, j).runs = 0

\* C5 as amended: with continueOnError = false and the default error
\* handler, a middleware that raises at any point makes its dispatch yield
\* the 500 response, which the caller receives when every upstream stage is
\* a pass-through; no later stage nor the terminal handler runs when it
\* raised before calling its continuation.
C5_RaiseYields500 ==
  \A r \in reqs : \A i \in Slots :
    (~continueOnError /\ errorHandler = "default" /\ Stage(r, i).fn = "mw" /\ Raised(r, i))
    => /\ Stage(r, i).out = defaultErrorHandler
       /\ (Completed(r) /\ UpstreamPassThrough(r, i)) => Result(r) = defaultErrorHandler
       /\ Stage(r, i).calls = 0 => \A j \in Slots : j > i => Stage(r, j).runs = 0

C5_Witness ==
  \E r \in reqs :
    /\ ~continueOnError /\ errorHandler = "default" /\ N >= 2
    /\ Raised(r, 1) /\ Stage(r, 1).fn = "mw" /\ Stage(r, 1).calls = 0
    /\ Completed(r) /\ UpstreamPassThrough(r, 1)
    /\ Result(r) = defaultErrorHandler

\* C6: with continueOnError = true, when middleware raise (at any point),
\* every other middleware is a pass-through and the terminal handler does
\* not raise, the terminal handler runs exactly once and the caller receives
\* its response.
C6_RaisingStageIsSkipped ==
  \A r \in reqs :
    ( /\ continueOnError /\ Completed(r)
      /\ \E i \in 0..(N - 1) : Raised(r, i)
      /\ \A i \in 0..(N - 1) : Raised(r, i) \/ PassThrough(r, i)
      /\ ~HandlerThrew(r) )
    => (Stage(r, N).runs = 1 /\ Result(r) = HandlerResponse)

\* C7: when no stage called its continuation twice, whatever the stages
\* raised, the caller receives a Response and not a rejection.
C7_CallerReceivesResponse ==
  \A r \in reqs :
    (Completed(r) /\ \A i \in Slots : Stage(r, i).calls <= 1)
      => Result(r).kind = "resp"

AnyShortCircuit(r) == \E i \in Slots : ShortCircuited(r, i)
TimerFired(r) == \E i \in Slots : Stage(r, i).timer = "fired"
Bit(b) == IF b THEN 1 ELSE 0

\* C8 as claimed: a completed request saw exactly one of: a short-circuit,
\* the terminal handler, the error handler; and the error handler at most
\* once.
C8_ExactlyOneEvent ==
  \A r \in reqs :
    Completed(r) =>
      /\ Bit(AnyShortCircuit(r)) + Bit(HandlerRan(r)) + Bit(req[r].ehRuns > 0) = 1
      /\ req[r].ehRuns <= 1

\* Stage i ended by raising: an error of its own, or the rejection of its
\* continuation that it let propagate.
EndedInError(r, i) ==
  /\ Stage(r, i).st = "done"
  /\ \/ Stage(r, i).act = "throw"
     \/ Stage(r, i).act = "pass" /\ Stage(r, i).got.kind = "err"

\* C8 as amended: a request that completes without a timeout guard having
\* fired saw at least one of the three events, and exactly one of them when
\* no stage raised; at most one middleware short-circuits, and a
\* short-circuit excludes the terminal handler; the error handler runs at
\* most once per started stage (so possibly more than once per request, and
\* possibly after the terminal handler ran).
C8_AtLeastOneEvent ==
  \A r \in reqs :
    /\ (Completed(r) /\ ~TimerFired(r))
         => (AnyShortCircuit(r) \/ HandlerRan(r) \/ req[r].ehRuns > 0)
    /\ (Completed(r) /\ ~TimerFired(r) /\ \A i \in Slots : ~EndedInError(r, i))
         => (Bit(AnyShortCircuit(r)) + Bit(HandlerRan(r)) = 1 /\ req[r].ehRuns = 0)
    /\ ~(AnyShortCircuit(r) /\ HandlerRan(r))
    /\ Cardinality({i \in Slots : ShortCircuited(r, i)}) <= 1
    /\ req[r].ehRuns <= Len(req[r].started)

C8_Witness ==
  \E r \in reqs :
    Completed(r) /\ ~TimerFired(r) /\ HandlerRan(r) /\ req[r].ehRuns >= 2

\* Stage i is running, or has run, the code that follows its continuation call.
AfterContinuation(r, i) ==
  Stage(r, i).calls >= 1 /\ Stage(r, i).st \in {"post", "done"}
\* Stage j, if it was started, has fully completed.
FullyCompleted(r, j) ==
  Stage(r, j).runs > 0 => (Stage(r, j).st = "done" /\ Stage(r, j).out.kind # "none")

\* C9 as claimed: in every chain, also with timeout guards, the code after a
\* stage's continuation call runs only when every started downstream stage
\* has fully completed.
C9_StrictLifo ==
  \A r \in reqs : \A i \in Slots : \A j \in Slots :
    (i < j /\ AfterContinuation(r, i)) => FullyCompleted(r, j)

\* C9 as amended: the same, except across a timeout guard whose deadline
\* fired: the stages downstream of such a guard may still be running.
C9_LifoUnlessDeadlineFired ==
  \A r \in reqs : \A i \in Slots : \A j \in Slots :
    ( /\ i < j /\ AfterContinuation(r, i)
      /\ \A k \in i..(j - 1) : Stage(r, k).timer # "fired" )
    => FullyCompleted(r, j)

C9_Witness ==
  \E r \in reqs :
    /\ N >= 2 /\ Stage(r, 0).fn = "timeout" /\ Stage(r, 0).timer = "cleared"
    /\ Stage(r, 1).fn = "mw" /\ AfterContinuation(r, 1)
    /\ Stage(r, 0).st = "done" /\ Stage(r, 2).runs = 1

\* C10: stages start in the order the middleware were added: the p-th stage
\* started is stage p - 1, it is the p-th middleware given to use(), and the
\* terminal handler comes after all of them.
C10_StartOrder ==
  \A r \in reqs : \A p \in 1..Len(req[r].started) :
    /\ req[r].started[p].i = p - 1
    /\ req[r].started[p].fn = IF p <= Len(added) THEN added[p] ELSE "handler"

C10_Witness ==
  \E r \in reqs :
    /\ continueOnError /\ N = MaxMw /\ Len(req[r].started) = N + 1
    /\ added[1] # added[2] /\ Raised(r, 0) /\ Stage(r, 0).calls = 0
    /\ req[r].started[N + 1].fn = "handler"

\* C11: once handle() has returned, later use() calls on the same builder
\* do not change the middleware sequence the returned entry point executes:
\* every stage a request starts is the one the chain held at position i
\* when handle() returned, or the terminal handler past its end.
C11_ChainImmutableOnceMaterialized ==
  \A r \in reqs : \A i \in Slots :
    Stage(r, i).runs > 0 =>
      Stage(r, i).fn = IF i < Len(materialized) THEN materialized[i + 1]
                       ELSE "handler"

\* ------------------------------------------- properties: rate limiter
\* The latest step was the counting step of a request.
Arrived == last.op \in {"counted", "rejected"}
\* The request of the latest step arrived strictly inside the window of
\* the entry it counted towards, and overlapped no request of its key.
SequentialInWindow == last.seq /\ last.at < last.post.resetTime

\* C12: with skipSuccessfulRequests off, of maxRequests + 1 sequential
\* requests of one key inside one window the k-th (k <= maxRequests) is
\* passed on and answered with X-RateLimit-Remaining = maxRequests - k, and
\* the (maxRequests + 1)-th is answered 429 "Too Many Requests" without
\* its continuation being called.
C12_SequentialRequestsUpToLimit ==
  (~skipSuccessfulRequests /\ SequentialInWindow) =>
    /\ (Arrived /\ last.k <= maxRequests) =>
         last.op = "counted" /\ last.calledNext
    /\ (last.op = "resumed" /\ last.k <= maxRequests) =>
         last.hRemaining = toString(maxRequests - last.k)
    /\ (Arrived /\ last.k = maxRequests + 1) =>
         /\ last.op = "rejected" /\ last.status = 429
         /\ last.error = "Too Many Requests"
         /\ ~last.calledNext
C12_Witness ==
  /\ ~skipSuccessfulRequests /\ SequentialInWindow /\ maxRequests = 2
  /\ last.op = "rejected" /\ last.k = maxRequests + 1
  /\ last.prev.count = maxRequests

\* C13: a key whose count exceeds maxRequests is exhausted only until its
\* window ends: the first request that arrives after resetTime replaces
\* the entry with { count: 1, resetTime: now + windowMs } and is passed on.
C13_ResetAfterWindowElapsed ==
  (Arrived /\ last.prev # NoClient /\ last.prev.count > maxRequests
     /\ last.at > last.prev.resetTime) =>
    /\ last.op = "counted" /\ last.calledNext
    /\ last.post = [count |-> 1, resetTime |-> last.at + windowMs]
    /\ clients[last.key] = last.post
C13_Witness ==
  /\ Arrived /\ last.prev # NoClient /\ last.prev.count > maxRequests
  /\ last.at > last.prev.resetTime
  /\ last.op = "counted"

\* C14: a request that finds an entry with resetTime <= now, the instant
\* now = resetTime included, replaces it with
\* { count: 1, resetTime: now + windowMs } and is passed on; only an entry
\* with resetTime > now is incremented.
C14_BoundaryInstantResets ==
  (Arrived /\ last.prev # NoClient) =>
    IF last.prev.resetTime <= last.at
    THEN /\ last.op = "counted"
         /\ last.post = [count |-> 1, resetTime |-> last.at + windowMs]
    ELSE last.post = [count |-> last.prev.count + 1,
                      resetTime |-> last.prev.resetTime]

\* C15: every 429 response carries, as body.retryAfter and as the
\* Retry-After header, ceil((resetTime - now) / 1000), and that number is
\* strictly positive.
C15_RetryAfterPositive ==
  last.op = "rejected" =>
    /\ last.retryAfter = Ceil(last.post.resetTime - last.at, MsPerSecond)
    /\ last.hRetryAfter = toString(last.retryAfter)
    /\ last.retryAfter > 0

\* C16: with skipSuccessfulRequests on, a request is never answered 429
\* when the requests of its key before it in the window were sequential
\* and all successful (status < 400), however many they were.
C16_SuccessfulRequestsNeverRejected ==
  (skipSuccessfulRequests /\ last.seq /\ last.ok) => last.op # "rejected"
C16_Witness ==
  /\ skipSuccessfulRequests /\ last.seq /\ last.ok /\ maxRequests = 2
  /\ last.op = "resumed" /\ last.status < 400
  /\ last.k = maxRequests + 1

\* C17: with skipSuccessfulRequests on, the decrement of a successful
\* request takes back that request's own increment and nothing else: the
\* count of an entry is the number of requests that counted towards it and
\* were not successfully completed since.
C17_DecrementCompensatesOwnIncrement ==
  skipSuccessfulRequests =>
    \A key \in DOMAIN clients : clients[key].count = hist[key].live

\* C18: with skipSuccessfulRequests off no increment is lost, whatever
\* requests of the key are in flight at once: the count of an entry is the
\* number of requests that passed the counting step since it was created.
C18_NoLostUpdate ==
  ~skipSuccessfulRequests =>
    \A key \in DOMAIN clients : clients[key].count = hist[key].seen
C18_Witness ==
  /\ ~skipSuccessfulRequests
  /\ \A c \in Calls : call[c].pc = "next" /\ call[c].key = "a"
  /\ hist["a"].seen = 2 /\ clients["a"].count = 2

\* ------------------------------------------- properties: timeout guard
\* Stage i of request r is a timeout guard that has returned.
GuardReturned(r, i) == Stage(r, i).fn = "timeout" /\ Stage(r, i).st = "done"

\* C19: when the continuation of a timeout guard completes with a response
\* before the deadline, the guard returns exactly that response and its
\* timer is cancelled: the deadline never fires for that call.
C19_ResponseBeforeDeadline ==
  \A r \in reqs : \A i \in Slots :
    (GuardReturned(r, i) /\ Stage(r, i).got.kind = "resp") =>
      /\ Stage(r, i).out = Stage(r, i).got
      /\ Stage(r, i).got = Stage(r, i + 1).out
      /\ Stage(r, i).timer = "cleared"
C19_Witness ==
  \E r \in reqs : \E i \in Slots :
    /\ GuardReturned(r, i) /\ Stage(r, i).got = HandlerResponse
    /\ Stage(r, i).timer = "cleared" /\ Completed(r)

\* C20: when the deadline of a timeout guard fires before its continuation
\* completes, the guard returns the 408 response with body
\* {"error":"Request Timeout"}; the timeout error is the outcome of no
\* stage, and what the abandoned continuation does later leaves the 408
\* as it is.
C20_DeadlineYields408 ==
  \A r \in reqs : \A i \in Slots :
    (GuardReturned(r, i) /\ Stage(r, i).timer = "fired") =>
      /\ Stage(r, i).out = TimeoutResponse
      /\ \A j \in Slots : Stage(r, j).out # RequestTimeout
C20_Witness ==
  \E r \in reqs : \E i \in Slots :
    /\ GuardReturned(r, i) /\ Stage(r, i).timer = "fired"
    /\ Stage(r, i).out = TimeoutResponse
    /\ Stage(r, i + 1).st = "done" /\ Stage(r, i + 1).out.kind = "resp"
    /\ Stage(r, i + 1).out # TimeoutResponse

\* C21: every error the continuation of the timeout middleware raises
\* before the deadline fires, whatever its message, comes out of the
\* middleware unchanged and is never turned into the 408 response.
C21_ContinuationErrorPropagates ==
  \A g \in Guards :
    (guard[g].pc = "done" /\ guard[g].timer # "fired"
       /\ guard[g].cont.kind = "err") =>
      guard[g].out = guard[g].cont

\* ------------------------------------------ properties: context store
\* What a caller reads through getContext(req) after the step.
ReadNext(r) == IF context'[r] # NoObj THEN heap'[context'[r]] ELSE Empty

\* C22: getContext on a request without a context creates an empty context
\* that from then on is the request's context (what getContext returned is
\* what req.context is), and after setContext(req, k, v) getContext(req)
\* reads v under k and every other key as before.
C22_GetCreatesAndSetWrites ==
  [][/\ \A r \in Reqs : getContextCall(r) => context'[r] = held'
     /\ \A r \in Reqs, k \in CtxKeys, v \in CtxValues :
          setContext(r, k, v) =>
            /\ ReadNext(r)[k] = v
            /\ \A j \in CtxKeys \ {k} : ReadNext(r)[j] = Read(r)[j]]_vars

\* C23: no step on one request's context changes what getContext reads on
\* another request, and no step changes initialContext: a step changes
\* what is read on at most one request.
C23_ContextIsolation ==
  [][/\ heap'[InitialObj] = heap[InitialObj]
     /\ \A r1, r2 \in Reqs :
          r1 # r2 => (ReadNext(r1) = Read(r1) \/ ReadNext(r2) = Read(r2))]_vars
C23_Witness ==
  /\ context[1] # NoObj /\ context[2] # NoObj
  /\ heap[InitialObj]["user"] = 1 /\ heap[InitialObj]["startTime"] = Undefined
  /\ Read(1)["user"] = 2 /\ Read(1)["startTime"] = 1
  /\ Read(2)["user"] = 1 /\ Read(2)["startTime"] = Undefined

\* C24: a failure while the logger builds or emits its record, after the
\* continuation returned a response, does not fail the request: the logger
\* returns that response unchanged and throws nothing.
C24_LoggingNeverFailsRequest ==
  \A l \in Logs :
    (logcall[l].pc = "done" /\ logcall[l].cont.kind = "resp") =>
      logcall[l].out = logcall[l].cont

\* ------------------------------------------ properties: concurrency
\* The double-invocation error is an outcome somewhere in request r.
DoubleInvocationIn(r) ==
  \E i \in Slots : Stage(r, i).got = DoubleInvocation
                     \/ Stage(r, i).out = DoubleInvocation
\* A stage of request r asked for dispatch(i + 1) a second time: it called
\* next() twice, or called it once and then ended with an error (its own
\* or the rejection of next()) under continueOnError.
AskedTwice(r) ==
  \E i \in Slots :
    \/ Stage(r, i).calls >= 2
    \/ /\ Stage(r, i).calls = 1 /\ Stage(r, i).st = "done" /\ continueOnError
       /\ \/ Stage(r, i).act = "throw"
          \/ Stage(r, i).act = "pass" /\ Stage(r, i).got.kind = "err"

\* C25: the cursor of the dispatcher belongs to one call of the composed
\* handler.  Whatever the other requests have done, a request starts with
\* stage 0, runs its stages in the order 0, 1, 2, ... each at most once,
\* and meets the double-invocation error only when one of its own stages
\* asked for the same continuation twice.
C25_RequestsDoNotShareCursor ==
  \A r \in reqs :
    req[r].status = "active" =>
      /\ Stage(r, 0).runs = 1
      /\ \A p \in 1..Len(req[r].started) : req[r].started[p].i = p - 1
      /\ \A i \in Slots : Stage(r, i).runs <= 1
      /\ DoubleInvocationIn(r) => AskedTwice(r)
C25_Witness ==
  /\ req[1].status = "active" /\ req[2].status = "active"
  /\ req[1].index = 2 /\ Stage(1, 1).st = "wait"
  /\ req[2].index = 0 /\ Stage(2, 0).st = "pre"
  /\ ~DoubleInvocationIn(1)

\* ------------------------------------------------- properties: CORS
\* Call c has answered with a response.
Answered(c) == corscall[c].pc = "done" /\ corscall[c].out.kind = "resp"
\* The Access-Control-Allow-Origin header the response had before the
\* middleware touched it: none on the new 204 response.
AllowOriginBefore(c) ==
  IF corscall[c].method = "OPTIONS" THEN NoHeader
  ELSE corscall[c].cont.allowOrigin
\* Every OPTIONS request is answered 204 without calling next().
PreflightAnswered ==
  \A c \in Cors :
    (corscall[c].pc # "idle" /\ corscall[c].method = "OPTIONS") =>
      /\ Answered(c) /\ corscall[c].out.status = 204
      /\ ~corscall[c].calledNext

\* C26: every OPTIONS request is answered 204 without calling next(); with
\* origin configured as a list the middleware sets
\* Access-Control-Allow-Origin to the request's Origin if and only if that
\* value is a member of the list, and does not set it otherwise, on
\* preflight and on other responses alike.
C26_AllowOriginIffMember ==
  /\ PreflightAnswered
  /\ \A c \in Cors :
       (origin.isArray /\ Answered(c)) =>
         corscall[c].out.allowOrigin =
           IF includes(origin.list, corscall[c].requestOrigin)
           THEN corscall[c].requestOrigin
           ELSE AllowOriginBefore(c)

\* C26 as the code has it: the Origin must also be a non-empty string; an
\* empty Origin header is treated like a missing one even when the list
\* contains the empty string.
C26_AllowOriginIffNonEmptyMember ==
  /\ PreflightAnswered
  /\ \A c \in Cors :
       (origin.isArray /\ Answered(c)) =>
         corscall[c].out.allowOrigin =
           IF /\ corscall[c].requestOrigin # ""
              /\ includes(origin.list, corscall[c].requestOrigin)
           THEN corscall[c].requestOrigin
           ELSE AllowOriginBefore(c)
C26_Witness ==
  /\ origin.list = <<"https://a.com", "https://b.com">>
  /\ Answered(1) /\ corscall[1].method = "OPTIONS"
  /\ corscall[1].requestOrigin = "https://a.com"
  /\ corscall[1].out.allowOrigin = "https://a.com"
  /\ Answered(2) /\ corscall[2].method = "GET"
  /\ corscall[2].requestOrigin = "https://c.com"
  /\ corscall[2].out.allowOrigin = NoHeader

\* ------------------------------------- properties: rate limiter windows
\* C27: without skipSuccessfulRequests, however the requests interleave, at
\* most maxRequests requests of a key are passed to next() between the
\* creation of the key's entry and its replacement, and every request of
\* that period beyond them is answered 429 without calling next().
C27_AtMostMaxRequestsPerWindow ==
  ~skipSuccessfulRequests =>
    /\ \A key \in Keys : hist[key].passed <= maxRequests
    /\ (last.op \in {"counted", "rejected"} /\ hist[last.key].seen > maxRequests) =>
         /\ last.op = "rejected" /\ last.status = 429 /\ ~last.calledNext
         /\ hist[last.key].passed = maxRequests
C27_Witness ==
  /\ ~skipSuccessfulRequests /\ maxRequests = 2
  /\ \E c \in Calls : call[c].pc = "next" /\ call[c].post = [count |-> 2, resetTime |-> last.post.resetTime]
  /\ last.op = "rejected" /\ last.status = 429
  /\ hist["a"].passed = 2 /\ hist["a"].seen = 4

\* C28: the window is fixed: the resetTime of an entry is written only when
\* the entry is created or replaced (a request that finds it expired); a
\* request that is allowed, rejected or given back while the entry is there
\* leaves its resetTime as it is.
C28_WindowIsFixed ==
  [][\A key \in DOMAIN clients :
       clients'[key].resetTime # clients[key].resetTime =>
         /\ expired(clients[key], now)
         /\ clients'[key] = [count |-> 1, resetTime |-> now + windowMs]]_vars
C28_Witness ==
  /\ skipSuccessfulRequests /\ maxRequests = 1
  /\ hist["a"].seen = 3 /\ ~hist["a"].ok
  /\ last.op = "rejected" /\ last.at > 0 /\ hist["a"].live < hist["a"].seen
  /\ clients["a"].resetTime = windowMs

\* ------------------------------------ properties: errors seen upstream
\* Stage j, upstream of stage i, has got the result of its one continuation
\* call, and no deadline between the two stages fired.
Received(r, j, i) ==
  /\ j < i
  /\ Stage(r, j).st \in {"post", "done"} /\ Stage(r, j).calls = 1
  /\ \A k \in j..(i - 1) : Stage(r, k).timer # "fired"

\* C29 as claimed: with continueOnError = false an error raised by stage i
\* is converted by errorHandler at stage i; every upstream stage j < i gets
\* the error handler's response, not an error, as the result of its
\* continuation, and the caller gets the response of stage 0.
C29_UpstreamGetsHandlerResponse ==
  \A r \in reqs : \A i \in Slots :
    (~continueOnError /\ EndedInError(r, i)) =>
      /\ Stage(r, i).out = ErrorHandlerResponse
      /\ \A j \in Slots : Received(r, j, i) => Stage(r, j).got = ErrorHandlerResponse
      /\ Completed(r) => Result(r).kind = "resp"

\* C29 as amended: the stage directly upstream of stage i gets the error
\* handler's response; a stage further upstream gets a response, never the
\* error: the one the stage below it returned, which is the error handler's
\* response when the stages in between are pass-throughs.
C29_UpstreamGetsResponse ==
  \A r \in reqs : \A i \in Slots :
    (~continueOnError /\ EndedInError(r, i)) =>
      /\ Stage(r, i).out = ErrorHandlerResponse
      /\ \A j \in Slots :
           Received(r, j, i) =>
             /\ Stage(r, j).got.kind = "resp"
             /\ Stage(r, j).got = Stage(r, j + 1).out
             /\ (\A k \in (j + 1)..(i - 1) : PassThrough(r, k))
                  => Stage(r, j).got = ErrorHandlerResponse
      /\ Completed(r) => Result(r).kind = "resp"
C29_Witness ==
  \E r \in reqs :
    /\ ~continueOnError /\ N >= 2 /\ Completed(r)
    /\ Raised(r, 2) /\ Stage(r, 2).calls = 0
    /\ Received(r, 1, 2) /\ Stage(r, 1).act = "own"
    /\ Stage(r, 1).got = ErrorHandlerResponse
    /\ Received(r, 0, 2) /\ Stage(r, 0).got = MwResponse
    /\ Result(r) = MwResponse

\* ----------------------------------------- properties: rate limiter keys
\* The step is the handling of a request with key key: its counting step
\* (allowed or rejected) or its resumption after next().
Handles(key) ==
  \E c \in Calls :
    \/ rateLimit(c, key)
    \/ call[c].key = key /\ \E s \in NextStatuses : rateLimitResume(c, s)
    \/ call[c].key = key /\ rateLimitNextThrows(c)

\* C30: the handling of a request with key k creates or modifies the entry
\* of k only, the count and resetTime of every other key stay as they are;
\* no entry is ever removed.
C30_KeysAreIndependent ==
  [][/\ DOMAIN clients \subseteq DOMAIN clients'
     /\ \A key \in Keys :
          Handles(key) =>
            \A k \in Keys \ {key} :
              /\ k \in DOMAIN clients' <=> k \in DOMAIN clients
              /\ k \in DOMAIN clients => clients'[k] = clients[k]]_vars
C30_Witness ==
  /\ DOMAIN clients = Keys
  /\ clients["a"].resetTime # clients["b"].resetTime
  /\ clients["a"].count = 0 /\ hist["a"].seen = 1
  /\ clients["b"].count = 2
  /\ last.key = "b" /\ last.op = "rejected"

\* ------------------------------------- properties: the deadline timer
\* C31: on every exit path of the timeout guard (response returned, 408
\* returned, error propagated) the timer is not pending once the guard has
\* returned; the deadline fires only while the guard awaits the race, so
\* never after the guard produced its result, and a timer that fired never
\* fires again.
C31_TimerSettledOnReturn ==
  [][\A g \in Guards :
       /\ guard'[g].pc = "done" =>
            /\ guard'[g].timer \in {"cleared", "fired"}
            /\ guard'[g].timer = "fired" =>
                 (guard'[g].got = RequestTimeout /\ guard'[g].out = TimeoutResponse)
       /\ guardDeadline(g) => guard[g].pc = "wait"
       /\ guard[g].timer \in {"cleared", "fired"} =>
            guard'[g].timer = guard[g].timer]_vars
C31_Witness ==
  /\ guard[1].pc = "done" /\ guard[1].timer = "fired"
  /\ guard[1].out = TimeoutResponse /\ guard[1].cont = HandlerResponse
  /\ guard[2].pc = "done" /\ guard[2].timer = "cleared"
  /\ guard[2].cont = Error("boom") /\ guard[2].out = Error("boom")

====
